---- MODULE Spec2Model ----
(***************************************************************************)
(* Model of symbolicate_matrix_report.py: the Binary Locator               *)
(* (find_app_binary), the Image Map (find_library_for_address), the Symbol *)
(* Resolver (symbolicate_address, parse_symbol_output) and the Report      *)
(* Walker (symbolicate_report).                                            *)
(*                                                                         *)
(* Python strings are sequences of one-character strings, so that          *)
(* startswith, "in", lower/upper, basename and hex are computed and not    *)
(* assumed.  None and a missing dictionary key are the two markers None    *)
(* and Absent below; neither is a sequence of characters.                  *)
(***************************************************************************)
EXTENDS Integers, Sequences, FiniteSets, TLC

\* ---------------------------------------------------------------- bounds
MaxImages == 2
MaxCandidates == 2
MaxThreads == 2
MaxFrames == 2

\* ------------------------------------------------------- Python strings
None == <<"<None>">>
Absent == <<"<absent>">>

Get(value, default) == IF value = Absent THEN default ELSE value

UpperLetters == <<"A", "B", "C", "D", "E", "F", "G", "H", "I", "J", "K", "L", "M", "N", "O", "P", "Q", "R", "S", "T", "U", "V", "W", "X", "Y", "Z">>
LowerLetters == <<"a", "b", "c", "d", "e", "f", "g", "h", "i", "j", "k", "l", "m", "n", "o", "p", "q", "r", "s", "t", "u", "v", "w", "x", "y", "z">>

IndexIn(c, letters) ==
    IF \E k \in 1..Len(letters) : letters[k] = c
    THEN CHOOSE k \in 1..Len(letters) : letters[k] = c
    ELSE 0

lower(s) ==
    [k \in 1..Len(s) |->
        IF IndexIn(s[k], UpperLetters) = 0 THEN s[k]
        ELSE LowerLetters[IndexIn(s[k], UpperLetters)]]

upper(s) ==
    [k \in 1..Len(s) |->
        IF IndexIn(s[k], LowerLetters) = 0 THEN s[k]
        ELSE UpperLetters[IndexIn(s[k], LowerLetters)]]

startswith(s, prefix) ==
    /\ Len(prefix) <= Len(s)
    /\ SubSeq(s, 1, Len(prefix)) = prefix

\* Python's  sub in s
contains(s, sub) ==
    \E k \in 0..(Len(s) - Len(sub)) : SubSeq(s, k + 1, k + Len(sub)) = sub

\* os.path.basename: what follows the last "/"
basename(path) ==
    LET slashes == {k \in 1..Len(path) : path[k] = "/"}
        last == IF slashes = {} THEN 0
                ELSE CHOOSE k \in slashes : \A m \in slashes : m <= k
    IN  SubSeq(path, last + 1, Len(path))

HexDigits == <<"0", "1", "2", "3", "4", "5", "6", "7", "8", "9", "a", "b", "c", "d", "e", "f">>

RECURSIVE HexDigitsOf(_)
HexDigitsOf(n) ==
    IF n < 16 THEN <<HexDigits[n + 1]>>
    ELSE Append(HexDigitsOf(n \div 16), HexDigits[(n % 16) + 1])

\* Python's hex() of a non-negative integer
hex(n) == <<"0", "x">> \o HexDigitsOf(n)

\* ------------------------------------------------------------ Image Map
\* The label of an image, from the rule table applied to its basename.
LibraryLabel(name) ==
    LET base_name == basename(name)
    IN  IF startswith(base_name, <<"l", "i", "b", "s", "y", "s", "t", "e", "m", "_">>) THEN <<"l", "i", "b", "s", "y", "s", "t", "e", "m", "_", "*">>
        ELSE IF startswith(base_name, <<"l", "i", "b", "o", "b", "j", "c">>) THEN <<"l", "i", "b", "o", "b", "j", "c", " ", "(", "O", "b", "j", "-", "C", " ", "R", "u", "n", "t", "i", "m", "e", ")">>
        ELSE IF startswith(base_name, <<"l", "i", "b", "d", "i", "s", "p", "a", "t", "c", "h">>) THEN <<"l", "i", "b", "d", "i", "s", "p", "a", "t", "c", "h", " ", "(", "G", "C", "D", ")">>
        ELSE IF contains(base_name, <<"U", "I", "K", "i", "t", "C", "o", "r", "e">>) \/ contains(base_name, <<"U", "I", "K", "i", "t">>)
             THEN <<"U", "I", "K", "i", "t">>
        ELSE IF contains(base_name, <<"C", "o", "r", "e", "F", "o", "u", "n", "d", "a", "t", "i", "o", "n">>) THEN <<"C", "o", "r", "e", "F", "o", "u", "n", "d", "a", "t", "i", "o", "n">>
        ELSE IF contains(base_name, <<"F", "o", "u", "n", "d", "a", "t", "i", "o", "n">>) THEN <<"F", "o", "u", "n", "d", "a", "t", "i", "o", "n">>
        ELSE IF contains(base_name, <<"Q", "u", "a", "r", "t", "z", "C", "o", "r", "e">>) THEN <<"Q", "u", "a", "r", "t", "z", "C", "o", "r", "e">>
        ELSE IF contains(base_name, <<"G", "r", "a", "p", "h", "i", "c", "s", "S", "e", "r", "v", "i", "c", "e", "s">>) THEN <<"G", "r", "a", "p", "h", "i", "c", "s", "S", "e", "r", "v", "i", "c", "e", "s">>
        ELSE IF contains(lower(base_name), <<"d", "y", "l", "d">>) THEN <<"d", "y", "l", "d", " ", "(", "d", "y", "n", "a", "m", "i", "c", " ", "l", "i", "n", "k", "e", "r", ")">>
        ELSE base_name

ImageContains(image, address) ==
    /\ image.image_addr <= address
    /\ address < image.image_addr + image.image_size

RECURSIVE ScanImages(_, _, _)
ScanImages(address, binary_images, k) ==
    IF k > Len(binary_images) THEN None
    ELSE IF ImageContains(binary_images[k], address)
         THEN LibraryLabel(binary_images[k].name)
         ELSE ScanImages(address, binary_images, k + 1)

RECURSIVE ScanImagesBackwards(_, _, _)
ScanImagesBackwards(address, binary_images, k) ==
    IF k < 1 THEN None
    ELSE IF ImageContains(binary_images[k], address)
         THEN LibraryLabel(binary_images[k].name)
         ELSE ScanImagesBackwards(address, binary_images, k - 1)

\* A scan that lets the last containing image win.
find_library_last_match(address, binary_images) ==
    ScanImagesBackwards(address, binary_images, Len(binary_images))

find_library_for_address(address, binary_images) ==
    ScanImages(address, binary_images, 1)

\* ------------------------------------------------------- Binary Locator
\* load_addr = None
NoLoadAddr == -1

\* Python truthiness of load_addr (None and 0 are false) and of a string
\* or None (None and the empty string are false).
TruthyAddr(load_addr) == load_addr # NoLoadAddr /\ load_addr # 0
TruthyStr(s) == s # None /\ s # <<>>

AppBinaryNames ==
    {<<"M", "a", "t", "r", "i", "x", "T", "e", "s", "t", "A", "p", "p">>, <<"M", "a", "t", "r", "i", "x", "T", "e", "s", "t", "A", "p", "p", ".", "a", "p", "p">>, <<"M", "a", "t", "r", "i", "x", "T", "e", "s", "t", "A", "p", "p", ".", "a", "p", "p", "/", "M", "a", "t", "r", "i", "x", "T", "e", "s", "t", "A", "p", "p">>}

\* re.search(r'UUID: ([A-F0-9-]+)', line): the leftmost place where "UUID: "
\* is followed by at least one character of the class, and the longest run
\* of class characters from there; None when there is no such place.
UUIDClass == {<<"A", "B", "C", "D", "E", "F", "0", "1", "2", "3", "4", "5", "6", "7", "8", "9", "-">>[k] : k \in 1..17}

UUIDSearch(line) ==
    LET starts == {k \in 1..Len(line) :
                     /\ k + 6 <= Len(line)
                     /\ SubSeq(line, k, k + 5) = <<"U", "U", "I", "D", ":", " ">>
                     /\ line[k + 6] \in UUIDClass}
    IN  IF starts = {} THEN None
        ELSE LET k == CHOOSE x \in starts : \A y \in starts : x <= y
                 ends == {e \in (k + 6)..Len(line) :
                            \A m \in (k + 6)..e : line[m] \in UUIDClass}
                 e == CHOOSE x \in ends : \A y \in ends : y <= x
             IN  SubSeq(line, k + 6, e)

\* get_binary_uuid(binary_path) with arch = 'arm64'.  dwarfdump is what the
\* identity extractor did for that file: ok is FALSE when it timed out, raised
\* or exited non-zero; stdout is its output, split into lines.
get_binary_uuid(dwarfdump) ==
    IF ~dwarfdump.ok THEN None
    ELSE LET hits == {k \in 1..Len(dwarfdump.stdout) :
                        /\ contains(dwarfdump.stdout[k], <<"a", "r", "m", "6", "4">>)
                        /\ UUIDSearch(dwarfdump.stdout[k]) # None}
         IN  IF hits = {} THEN None
             ELSE upper(UUIDSearch(
                     dwarfdump.stdout[CHOOSE k \in hits : \A m \in hits : k <= m]))

\* list.sort(key=mtime, reverse=True): stable, newest first.
RECURSIVE SortNewestFirst(_)
SortNewestFirst(binaries) ==
    IF binaries = <<>> THEN <<>>
    ELSE LET rest == SortNewestFirst(SubSeq(binaries, 1, Len(binaries) - 1))
             x == binaries[Len(binaries)]
             \* x goes after every element that is at least as new
             keep == {k \in 0..Len(rest) :
                        \A m \in 1..Len(rest) :
                            (m <= k) <=> (rest[m].mtime >= x.mtime)}
             k == IF keep = {} THEN Len(rest) ELSE CHOOSE y \in keep : TRUE
         IN  SubSeq(rest, 1, k) \o <<x>> \o SubSeq(rest, k + 1, Len(rest))


\* find_all_possible_binaries(): derived_data is what the three glob
\* patterns match, in pattern order, each match a file that exists, with its
\* modification time and what dwarfdump prints for it.
find_all_possible_binaries(derived_data) == SortNewestFirst(derived_data)

\* The position of the first image with the smallest image_addr (min()).
FirstMinImage(binary_images) ==
    CHOOSE k \in 1..Len(binary_images) :
        /\ \A m \in 1..Len(binary_images) :
              binary_images[k].image_addr <= binary_images[m].image_addr
        /\ \A m \in 1..(k - 1) :
              binary_images[m].image_addr > binary_images[k].image_addr

\* Lines 61-82: the identity the report declares.
DeclaredIdentity(binary_images) ==
    LET named == {k \in 1..Len(binary_images) :
                    basename(binary_images[k].name) \in AppBinaryNames}
        first == IF named = {}
                 THEN [simulator_path |-> None, load_addr |-> NoLoadAddr,
                       report_uuid |-> None, printed |-> {}]
                 ELSE LET image == binary_images[
                                     CHOOSE k \in named : \A m \in named : k <= m]
                      IN  [simulator_path |-> image.name,
                           load_addr |-> image.image_addr,
                           report_uuid |-> upper(image.uuid),
                           printed |-> {}]
    IN  IF ~TruthyAddr(first.load_addr) /\ binary_images # <<>>
        THEN LET first_image == binary_images[FirstMinImage(binary_images)]
             IN  [simulator_path |-> first_image.name,
                  load_addr |-> first_image.image_addr,
                  report_uuid |-> upper(first_image.uuid),
                  printed |-> {"no_explicit_app_image"}]
        ELSE first

\* Lines 116-129: the first candidate, newest first, whose UUID is the
\* report's; 0 when there is none.
FirstUUIDMatch(candidates, report_uuid) ==
    LET hits == {k \in 1..Len(candidates) :
                   LET binary_uuid == get_binary_uuid(candidates[k].dwarfdump)
                   IN  TruthyStr(binary_uuid) /\ binary_uuid = report_uuid}
    IN  IF hits = {} THEN 0 ELSE CHOOSE k \in hits : \A m \in hits : k <= m

find_app_binary(binary_images, disk, derived_data) ==
    LET id == DeclaredIdentity(binary_images)
        candidates == find_all_possible_binaries(derived_data)
        hit == IF TruthyStr(id.report_uuid)
               THEN FirstUUIDMatch(candidates, id.report_uuid) ELSE 0
    IN  IF ~TruthyAddr(id.load_addr)
        THEN [binary_path |-> None, load_addr |-> NoLoadAddr,
              printed |-> id.printed \cup {"no_binary_info"}]
        ELSE IF TruthyStr(id.simulator_path) /\ id.simulator_path \in disk
        THEN [binary_path |-> id.simulator_path, load_addr |-> id.load_addr,
              printed |-> id.printed \cup {"using_report_path"}]
        ELSE IF candidates = <<>>
        THEN [binary_path |-> None, load_addr |-> id.load_addr,
              printed |-> id.printed \cup {"no_binaries_found"}]
        ELSE IF hit # 0
        THEN [binary_path |-> candidates[hit].path, load_addr |-> id.load_addr,
              printed |-> id.printed \cup {"uuid_match"}]
        ELSE [binary_path |-> candidates[1].path, load_addr |-> id.load_addr,
              printed |-> id.printed \cup {"uuid_unmatched_using_latest"}]

\* get_cpu_arch(report_data)
get_cpu_arch(cpu_arch) ==
    IF contains(lower(cpu_arch), <<"a", "r", "m", "6", "4">>) \/ contains(lower(cpu_arch), <<"a", "r", "m">>)
    THEN <<"a", "r", "m", "6", "4">>
    ELSE IF contains(lower(cpu_arch), <<"x", "8", "6", "_", "6", "4">>) THEN <<"x", "8", "6", "_", "6", "4">>
    ELSE <<"a", "r", "m", "6", "4">>


\* ------------------------------------------------------ Symbol Resolver
Whitespace == {" ", "\n", "\t", "\r"}

\* str.strip()
strip(s) ==
    LET solid == {k \in 1..Len(s) : s[k] \notin Whitespace}
    IN  IF solid = {} THEN <<>>
        ELSE SubSeq(s, CHOOSE k \in solid : \A m \in solid : k <= m,
                       CHOOSE k \in solid : \A m \in solid : m <= k)

\* symbolicate_address(binary_path, load_addr, target_addr, arch): atos is
\* what subprocess.run did: raised is TRUE for a time-out or any other
\* exception, otherwise returncode and stdout are the symbolizer's.
symbolicate_address(atos, target_addr) ==
    IF atos.raised THEN None
    ELSE IF atos.returncode = 0
    THEN LET symbol == strip(atos.stdout)
         IN  IF symbol # <<>> /\ symbol # hex(target_addr)
                /\ ~contains(symbol, <<"0", "x">>)
             THEN symbol ELSE None
    ELSE None

SourceExtensions == {<<"m">>, <<"m", "m">>, <<"c">>, <<"c", "p", "p">>, <<"s", "w", "i", "f", "t">>}
Digits == {<<"0", "1", "2", "3", "4", "5", "6", "7", "8", "9">>[k] : k \in 1..10}

\* The end of the longest run of digits that starts at k (k - 1 if none).
DigitsEnd(s, k) ==
    LET runs == {e \in k..Len(s) : \A m \in k..e : s[m] \in Digits}
    IN  IF runs = {} THEN k - 1 ELSE CHOOSE e \in runs : \A x \in runs : x <= e

\* s[p] is "(" and s[p+1..r] is  [^)]+\.(?:m|mm|c|cpp|swift)  followed by
\* ":", at least one digit and ")".
SourceSuffixAt(s, p, r) ==
    /\ s[p] = "("
    /\ \A m \in (p + 1)..r : s[m] # ")"
    /\ \E ext \in SourceExtensions :
          /\ r - Len(ext) - 1 >= p + 1
          /\ SubSeq(s, r - Len(ext), r) = <<".">> \o ext
    /\ r + 1 <= Len(s)
    /\ s[r + 1] = ":"
    /\ DigitsEnd(s, r + 2) >= r + 2
    /\ DigitsEnd(s, r + 2) + 1 <= Len(s)
    /\ s[DigitsEnd(s, r + 2) + 1] = ")"

\* parse_symbol_output(symbol_str):
\* re.search(r'\(([^)]+\.(?:m|mm|c|cpp|swift)):(\d+)\)', symbol_str)
parse_symbol_output(symbol_str) ==
    LET opens == {p \in 1..Len(symbol_str) : symbol_str[p] = "("}
        colons == {c \in 1..Len(symbol_str) : symbol_str[c] = ":"}
        found == {pr \in opens \X {c - 1 : c \in colons} :
                    pr[1] < pr[2] /\ SourceSuffixAt(symbol_str, pr[1], pr[2])}
    IN  IF found = {} THEN [file_name |-> None, line_num |-> None]
        ELSE LET p == CHOOSE x \in {pr[1] : pr \in found} :
                          \A y \in {pr[1] : pr \in found} : x <= y
                 ends == {pr[2] : pr \in {q \in found : q[1] = p}}
                 r == CHOOSE x \in ends : \A y \in ends : y <= x
             IN  [file_name |-> SubSeq(symbol_str, p + 1, r),
                  line_num |-> SubSeq(symbol_str, r + 2,
                                      DigitsEnd(symbol_str, r + 2))]

\* re.search(r'\(in ([^)]+)\)', symbolicated): the library name, or None.
InLibrary(symbolicated) ==
    LET n == Len(symbolicated)
        closes(p) == {q \in (p + 4)..n : symbolicated[q] = ")"}
        firstClose(p) == CHOOSE q \in closes(p) : \A x \in closes(p) : q <= x
        starts == {p \in 1..n :
                     /\ p + 3 <= n
                     /\ SubSeq(symbolicated, p, p + 3) = <<"(", "i", "n", " ">>
                     /\ closes(p) # {}
                     /\ firstClose(p) >= p + 5}
    IN  IF starts = {} THEN None
        ELSE LET p == CHOOSE x \in starts : \A y \in starts : x <= y
             IN  SubSeq(symbolicated, p + 4, firstClose(p) - 1)

\* ----------------------------------------------------- Frame Classifier
framework_files ==
    {<<"K", "S", "C", "r", "a", "s", "h">>, <<"K", "S">>, <<"W", "C", "C", "r", "a", "s", "h">>, <<"W", "C", "B", "l", "o", "c", "k">>, <<"W", "C", "M", "e", "m", "o", "r", "y">>, <<"W", "C", "F", "P", "S">>, <<"W", "C", "D", "u", "m", "p">>,
     <<"M", "a", "t", "r", "i", "x", "A", "d", "a", "p", "t", "e", "r">>, <<"M", "a", "t", "r", "i", "x", "P", "l", "u", "g", "i", "n">>, <<"M", "a", "t", "r", "i", "x", "I", "s", "s", "u", "e">>, <<"M", "a", "t", "r", "i", "x", "L", "o", "g">>,
     <<"M", "a", "t", "r", "i", "x", "D", "e", "v", "i", "c", "e">>, <<"M", "a", "t", "r", "i", "x", "P", "a", "t", "h">>, <<"M", "a", "t", "r", "i", "x", "B", "a", "s", "e">>, <<"M", "a", "t", "r", "i", "x", "A", "p", "p", "R", "e", "b", "o", "o", "t">>,
     <<"l", "o", "g", "g", "e", "r", "_">>, <<"m", "e", "m", "o", "r", "y", "_">>, <<"s", "t", "a", "c", "k", "_">>, <<"o", "b", "j", "e", "c", "t", "_">>}

\* Line 484 with the prefix looked for anywhere in the file name.
is_framework_anywhere(file_name) ==
    \E prefix \in framework_files : contains(file_name, prefix)

\* Line 484: any(file_name.startswith(p) for p in framework_files)
is_framework(file_name) ==
    \E prefix \in framework_files : startswith(file_name, prefix)

\* Lines 474-491: is_app_code of a frame that was resolved.
is_app_code(file_name) ==
    IF file_name # None THEN ~is_framework(file_name) ELSE TRUE

\* -------------------------------------------------------- Report Walker
app_name == <<"M", "a", "t", "r", "i", "x", "T", "e", "s", "t", "A", "p", "p">>

\* thread.get('name', ...): the default is a literal without "main" in it.
DefaultThreadName == <<"u", "n", "n", "a", "m", "e", "d">>

\* Lines 345-350: the thread has a frame whose object_name contains app_name.
has_app_code(thread) ==
    \E k \in 1..Len(thread.contents) :
        contains(Get(thread.contents[k].object_name, <<>>), app_name)

\* Line 353: the main-thread test.
IsMainThread(thread) ==
    \/ thread.index = 0
    \/ contains(lower(Get(thread.name, DefaultThreadName)), <<"m", "a", "i", "n">>)

\* The position of the last thread satisfying a test, 0 (None) if none: the
\* loop of lines 336-360 assigns on every hit and never breaks.
LastPosition(positions) ==
    IF positions = {} THEN 0
    ELSE CHOOSE k \in positions : \A m \in positions : m <= k

MainThread(threads) ==
    LastPosition({k \in 1..Len(threads) : IsMainThread(threads[k])})

CrashedThread(threads) ==
    LastPosition({k \in 1..Len(threads) : threads[k].crashed})

RECURSIVE AppCodeThreads(_, _)
AppCodeThreads(threads, k) ==
    IF k > Len(threads) THEN <<>>
    ELSE (IF has_app_code(threads[k]) THEN <<k>> ELSE <<>>)
         \o AppCodeThreads(threads, k + 1)

\* Threads are held by their position in the report; Python compares the
\* thread dictionaries themselves, by value.
SameThread(threads, a, b) == a # 0 /\ b # 0 /\ threads[a] = threads[b]

RECURSIVE OtherAppThreads(_, _, _, _, _)
OtherAppThreads(threads, main_thread, crashed_thread, app_code_threads, k) ==
    IF k > Len(app_code_threads) THEN <<>>
    ELSE (IF \/ SameThread(threads, app_code_threads[k], main_thread)
             \/ SameThread(threads, app_code_threads[k], crashed_thread)
          THEN <<>>
          ELSE <<[label |-> <<"app_thread", threads[app_code_threads[k]].index>>,
                  thread |-> app_code_threads[k]]>>)
         \o OtherAppThreads(threads, main_thread, crashed_thread,
                            app_code_threads, k + 1)


\* threads_to_show without the test that keeps the main and the crashed
\* thread out of the application threads.
ThreadsToShowEveryAppThread(threads, main_thread, crashed_thread, app_code_threads) ==
    (IF main_thread # 0
     THEN <<[label |-> <<"main_thread">>, thread |-> main_thread]>> ELSE <<>>)
    \o (IF crashed_thread # 0 /\ ~SameThread(threads, crashed_thread, main_thread)
        THEN <<[label |-> <<"crashed_thread">>, thread |-> crashed_thread]>>
        ELSE <<>>)
    \o [k \in 1..Len(app_code_threads) |->
          [label |-> <<"app_thread", threads[app_code_threads[k]].index>>,
           thread |-> app_code_threads[k]]]

\* Lines 363-381: threads_to_show.
ThreadsToShow(threads, main_thread, crashed_thread, app_code_threads) ==
    (IF main_thread # 0
     THEN <<[label |-> <<"main_thread">>, thread |-> main_thread]>> ELSE <<>>)
    \o (IF crashed_thread # 0 /\ ~SameThread(threads, crashed_thread, main_thread)
        THEN <<[label |-> <<"crashed_thread">>, thread |-> crashed_thread]>>
        ELSE <<>>)
    \o OtherAppThreads(threads, main_thread, crashed_thread, app_code_threads, 1)

\* Lines 416-419: the number of app frames of a backtrace.
AppFrameCount(frames) ==
    Cardinality({k \in 1..Len(frames) :
                   contains(Get(frames[k].object_name, <<"?", "?", "?">>), app_name)})

\* not symbol or symbol == '<redacted>'
NoUsableSymbol(symbol) == ~TruthyStr(symbol) \/ symbol = <<"<", "r", "e", "d", "a", "c", "t", "e", "d", ">">>


\* should_symbolicate with the "???" rule applied in every thread.
should_symbolicate_unknown_too(frame, app_frames) ==
    LET obj_name == Get(frame.object_name, <<"?", "?", "?">>)
    IN  /\ contains(obj_name, app_name) \/ obj_name = <<"?", "?", "?">>
        /\ NoUsableSymbol(frame.symbol_name)

\* should_symbolicate without the "???" rule.
should_symbolicate_app_only(frame, app_frames) ==
    LET obj_name == Get(frame.object_name, <<"?", "?", "?">>)
    IN  contains(obj_name, app_name) /\ NoUsableSymbol(frame.symbol_name)

\* Lines 442-451: should_symbolicate.
should_symbolicate(frame, app_frames) ==
    LET obj_name == Get(frame.object_name, <<"?", "?", "?">>)
    IN  IF app_frames > 0
        THEN contains(obj_name, app_name) /\ NoUsableSymbol(frame.symbol_name)
        ELSE obj_name = <<"?", "?", "?">> /\ NoUsableSymbol(frame.symbol_name)

\* Lines 456-517: what is shown for a frame that was resolved.
ResolvedFrame(frame, symbolicated, binary_images) ==
    LET obj_name == Get(frame.object_name, <<"?", "?", "?">>)
        parsed == parse_symbol_output(symbolicated)
        in_match == InLibrary(symbolicated)
        lib_name == find_library_for_address(frame.instruction_addr, binary_images)
        display_name ==
            IF obj_name = <<"?", "?", "?">>
            THEN IF in_match # None THEN in_match
                 ELSE IF TruthyStr(lib_name) THEN lib_name ELSE obj_name
            ELSE obj_name
    IN  [how |-> "resolved",
         app_code |-> is_app_code(parsed.file_name),
         display_name |->
            IF /\ display_name = <<"M", "a", "t", "r", "i", "x", "T", "e", "s", "t", "A", "p", "p">>
               /\ parsed.file_name # None
               /\ \/ startswith(parsed.file_name, <<"K", "S">>)
                  \/ startswith(parsed.file_name, <<"W", "C">>)
            THEN <<"M", "a", "t", "r", "i", "x", "T", "e", "s", "t", "A", "p", "p", " ", "[", "f", "r", "a", "m", "e", "w", "o", "r", "k", "]">> ELSE display_name,
         addr |-> frame.instruction_addr,
         text |-> symbolicated,
         file_name |-> parsed.file_name,
         line_num |-> parsed.line_num]

\* Lines 518-528: what is shown for a frame whose resolution failed.
FailedFrame(frame, binary_images) ==
    LET obj_name == Get(frame.object_name, <<"?", "?", "?">>)
        lib_name == find_library_for_address(frame.instruction_addr, binary_images)
    IN  [how |-> IF ~TruthyStr(lib_name) THEN "unknown_library"
                 ELSE IF lib_name # <<"M", "a", "t", "r", "i", "x", "T", "e", "s", "t", "A", "p", "p">> THEN "library"
                 ELSE "symbolication_failed",
         app_code |-> FALSE,
         display_name |-> IF TruthyStr(lib_name) THEN lib_name ELSE obj_name,
         addr |-> frame.instruction_addr,
         text |-> None, file_name |-> None, line_num |-> None]

\* Lines 529-543: what is shown for a frame that is not sent to the resolver.
PlainFrame(frame, binary_images) ==
    LET obj_name == Get(frame.object_name, <<"?", "?", "?">>)
        lib_name == find_library_for_address(frame.instruction_addr, binary_images)
    IN  [how |-> "as_reported",
         app_code |-> FALSE,
         display_name |->
            IF TruthyStr(frame.symbol_name) THEN obj_name
            ELSE IF obj_name = <<"?", "?", "?">> /\ TruthyStr(lib_name)
                    /\ lib_name # <<"M", "a", "t", "r", "i", "x", "T", "e", "s", "t", "A", "p", "p">>
                 THEN lib_name ELSE obj_name,
         addr |-> frame.instruction_addr,
         text |-> IF TruthyStr(frame.symbol_name) THEN frame.symbol_name ELSE None,
         file_name |-> None, line_num |-> None]

\* ---------------------------------------------------------------- inputs
SeqsUpTo(S, n) == UNION {[1..k -> S] : k \in 0..n}

AppImagePath == <<"/", "s", "/", "M", "a", "t", "r", "i", "x", "T", "e", "s", "t", "A", "p", "p">>
LibImagePath == <<"/", "l", "/", "l", "i", "b", "s", "y", "s", "t", "e", "m", "_", "c">>

DefaultImages ==
    <<[name |-> AppImagePath, image_addr |-> 16, image_size |-> 16,
       uuid |-> <<"A", "b", "c", "d", "-", "1", "2">>],
      [name |-> LibImagePath, image_addr |-> 32, image_size |-> 16,
       uuid |-> <<>>]>>

\* The application image declared at load address 0.
ZeroAddressImages ==
    <<[name |-> AppImagePath, image_addr |-> 0, image_size |-> 32,
       uuid |-> <<"A", "b", "c", "d", "-", "1", "2">>]>>

\* Frames of a backtrace: the owner the report names, the symbol it carries,
\* and an address inside the application image (20), inside the library
\* image (36) or inside no image (64).
AddressOf(object_name) ==
    IF object_name = <<"M", "a", "t", "r", "i", "x", "T", "e", "s", "t", "A", "p", "p">> THEN 20
    ELSE IF object_name = <<"U", "I", "K", "i", "t", "C", "o", "r", "e">> THEN 36 ELSE 64

Frames ==
    {[object_name |-> o, symbol_name |-> s, instruction_addr |-> AddressOf(o)] :
        o \in {<<"M", "a", "t", "r", "i", "x", "T", "e", "s", "t", "A", "p", "p">>, <<"?", "?", "?">>, <<"U", "I", "K", "i", "t", "C", "o", "r", "e">>},
        s \in {None, <<"<", "r", "e", "d", "a", "c", "t", "e", "d", ">">>, <<"m", "a", "i", "n">>}}

NamedAppFrame ==
    [object_name |-> <<"M", "a", "t", "r", "i", "x", "T", "e", "s", "t", "A", "p", "p">>, symbol_name |-> <<"m", "a", "i", "n">>,
     instruction_addr |-> 20]

RedactedAppFrame ==
    [object_name |-> <<"M", "a", "t", "r", "i", "x", "T", "e", "s", "t", "A", "p", "p">>, symbol_name |-> <<"<", "r", "e", "d", "a", "c", "t", "e", "d", ">">>,
     instruction_addr |-> 20]

\* A frame of the application at an address of its own (21), for which the
\* symbolizer names the source files of ClassifiedFiles.
ClassifiedFrame ==
    [object_name |-> <<"M", "a", "t", "r", "i", "x", "T", "e", "s", "t", "A", "p", "p">>, symbol_name |-> <<"<", "r", "e", "d", "a", "c", "t", "e", "d", ">">>,
     instruction_addr |-> 21]

\* Frames with a missing object_name, an empty symbol_name, an owner that
\* only contains the application's name, or an address that disagrees with
\* the owner.
OddFrames ==
    {[object_name |-> Absent, symbol_name |-> None, instruction_addr |-> 64],
     [object_name |-> Absent, symbol_name |-> <<"m", "a", "i", "n">>, instruction_addr |-> 36],
     [object_name |-> <<"?", "?", "?">>, symbol_name |-> <<>>, instruction_addr |-> 36],
     [object_name |-> <<"?", "?", "?">>, symbol_name |-> None, instruction_addr |-> 20],
     [object_name |-> <<"M", "a", "t", "r", "i", "x", "T", "e", "s", "t", "A", "p", "p">>, symbol_name |-> <<>>,
      instruction_addr |-> 64],
     [object_name |-> <<"M", "a", "t", "r", "i", "x", "T", "e", "s", "t", "A", "p", "p", "T", "e", "s", "t", "s">>, symbol_name |-> None,
      instruction_addr |-> 20]}

OddBacktraces ==
    UNION {{<<f>>, <<f, RedactedAppFrame>>, <<NamedAppFrame, f>>} : f \in OddFrames}

\* Reports that vary the threads: their indexes (distinct within a report),
\* names, crashed flags and whether they hold application code.
SelectionThreads ==
    [index : 0..(MaxThreads - 1), name : {Absent, <<"M", "a", "i", "n">>}, crashed : BOOLEAN,
     contents : {<<>>, <<NamedAppFrame>>}]

SelectionLists ==
    {ts \in SeqsUpTo(SelectionThreads, MaxThreads) :
        \A a, b \in 1..Len(ts) : a # b => ts[a].index # ts[b].index}

\* Reports in which two threads pass the main-thread test (one by its index,
\* one by its name) and a third thread is the one flagged crashed, in three
\* orders.
TwoMainLists ==
    UNION {{<<t0, t1, t2>>, <<t1, t0, t2>>, <<t2, t1, t0>>} :
        t0 \in {[index |-> 0, name |-> Absent, crashed |-> FALSE, contents |-> c] :
                  c \in {<<>>, <<NamedAppFrame>>}},
        t1 \in {[index |-> 1, name |-> <<"M", "a", "i", "n">>, crashed |-> FALSE, contents |-> c] :
                  c \in {<<>>, <<NamedAppFrame>>}},
        t2 \in {[index |-> 2, name |-> Absent, crashed |-> TRUE, contents |-> <<>>]}}

\* Reports of two threads: both with a frame that is sent to the resolver,
\* or the first without a backtrace and the second with two frames.
WalkLists ==
    {<<[index |-> 0, name |-> Absent, crashed |-> FALSE,
        contents |-> <<RedactedAppFrame>>],
       [index |-> 1, name |-> Absent, crashed |-> FALSE,
        contents |-> <<RedactedAppFrame>>]>>,
     <<[index |-> 0, name |-> Absent, crashed |-> FALSE, contents |-> <<>>],
       [index |-> 1, name |-> Absent, crashed |-> FALSE,
        contents |-> <<RedactedAppFrame, NamedAppFrame>>]>>}

\* Reports that vary the frames of one thread.
ScanLists ==
    {<<[index |-> 0, name |-> Absent, crashed |-> FALSE, contents |-> b]>> :
        b \in SeqsUpTo(Frames, MaxFrames) \cup OddBacktraces}

CpuArchs == {<<>>, <<"a", "r", "m", "6", "4">>, <<"A", "R", "M", "v", "7">>, <<"x", "8", "6", "_", "6", "4">>, <<"i", "3", "8", "6">>}

Reports ==
    {[binary_images |-> DefaultImages, cpu_arch |-> <<"a", "r", "m", "6", "4">>, threads |-> ts] :
        ts \in SelectionLists \cup ScanLists \cup TwoMainLists \cup WalkLists}
    \cup
    {[binary_images |-> DefaultImages, cpu_arch |-> <<"a", "r", "m", "6", "4">>,
      threads |-> <<[index |-> 0, name |-> Absent, crashed |-> FALSE,
                     contents |-> <<ClassifiedFrame>>]>>]}
    \cup
    {[binary_images |-> ZeroAddressImages, cpu_arch |-> <<"a", "r", "m", "6", "4">>,
      threads |-> <<[index |-> 0, name |-> Absent, crashed |-> FALSE,
                     contents |-> <<RedactedAppFrame, RedactedAppFrame>>]>>]}
    \cup
    {[binary_images |-> DefaultImages, cpu_arch |-> c,
      threads |-> <<[index |-> 0, name |-> Absent, crashed |-> FALSE,
                     contents |-> <<NamedAppFrame>>]>>] : c \in CpuArchs}

\* The reports read in a run: every report on a machine without candidates
\* in DerivedData, and with candidates the reports of WalkLists and a report
\* without threads.
ReportsOn(candidates) ==
    IF candidates = <<>> THEN Reports
    ELSE {[binary_images |-> DefaultImages, cpu_arch |-> <<"a", "r", "m", "6", "4">>,
           threads |-> ts] : ts \in WalkLists \cup {<<>>}}

NoReport == [binary_images |-> <<>>, cpu_arch |-> <<>>, threads |-> <<>>]

\* Source positions the symbolizer may print: a file for every prefix of
\* framework_files, files that only resemble one, and positions in which
\* line 203 finds no source file.
ClassifiedFiles ==
    {prefix \o <<"X", ".", "m", ":", "1">> : prefix \in framework_files}
    \cup {<<"W", "C", "D", "u", "m", "p", ".", "m", "m", ":", "2">>, <<"K", "S", ".", "s", "w", "i", "f", "t", ":", "3">>, <<"A", "p", "p", ".", "m", ":", "4">>, <<"M", "a", "t", "r", "i", "x", ".", "m", ":", "5">>, <<"k", "s", ".", "c", ":", "6">>,
          <<"X", "K", "S", ".", "m", ":", "7">>, <<"l", "o", "g", "g", "e", "r", ".", "c", "p", "p", ":", "8">>, <<"/", "p", "/", "K", "S", "C", "r", "a", "s", "h", ".", "c", ":", "9">>, <<"K", "S", ".", "h", ":", "1", "0">>, <<"K", "S", "C", "r", "a", "s", "h", ".", "m">>}

\* What the symbolizer may do when asked for target_addr.
AtosRuns(target_addr) ==
    IF target_addr = 21
    THEN {[raised |-> FALSE, returncode |-> 0,
           stdout |-> <<"f", " ", "(", "i", "n", " ", "M", "a", "t", "r", "i", "x", "T", "e", "s", "t", "A", "p", "p", ")", " ", "(">> \o file \o <<")">> \o <<"\n">>] :
             file \in ClassifiedFiles}
    ELSE
    {[raised |-> TRUE, returncode |-> 0, stdout |-> <<>>],
     [raised |-> FALSE, returncode |-> 1, stdout |-> <<>>],
     [raised |-> FALSE, returncode |-> 0, stdout |-> <<"\n">>],
     [raised |-> FALSE, returncode |-> 0,
      stdout |-> hex(target_addr) \o <<"\n">>],
     [raised |-> FALSE, returncode |-> 0,
      stdout |-> hex(target_addr) \o <<" ", "(", "i", "n", " ", "M", "a", "t", "r", "i", "x", "T", "e", "s", "t", "A", "p", "p", ")">> \o <<"\n">>],
     [raised |-> FALSE, returncode |-> 0,
      stdout |-> <<"-", "[", "A", " ", "b", "]", " ", "(", "i", "n", " ", "M", "a", "t", "r", "i", "x", "T", "e", "s", "t", "A", "p", "p", ")", " ", "(", "A", ".", "m", ":", "4", ")">> \o <<"\n">>],
     [raised |-> FALSE, returncode |-> 0,
      stdout |-> <<"k", "s", " ", "(", "i", "n", " ", "M", "a", "t", "r", "i", "x", "T", "e", "s", "t", "A", "p", "p", ")", " ", "(", "K", "S", "x", ".", "c", ":", "7", ")">> \o <<"\n">>],
     [raised |-> FALSE, returncode |-> 0,
      stdout |-> <<"f", " ", "(", "i", "n", " ", "M", "a", "t", "r", "i", "x", "T", "e", "s", "t", "A", "p", "p", ")">> \o <<"\n">>]}

\* What the symbolizer may do when symbolicate_address is called alone:
\* time out, exit with an error (with or without output), print nothing or
\* white space, echo the address (bare, padded, or followed by the image),
\* print another address, or print a symbol (one of them with 0x in its
\* name, one on two lines).
ResolverRuns(target_addr) ==
    {[raised |-> TRUE, returncode |-> 0, stdout |-> <<>>],
     [raised |-> FALSE, returncode |-> 1, stdout |-> <<>>],
     [raised |-> FALSE, returncode |-> 1,
      stdout |-> <<"-", "[", "A", " ", "b", "]", " ", "(", "i", "n", " ", "M", "a", "t", "r", "i", "x", "T", "e", "s", "t", "A", "p", "p", ")", " ", "(", "A", ".", "m", ":", "4", ")">> \o <<"\n">>]}
    \cup
    {[raised |-> FALSE, returncode |-> 0, stdout |-> out] :
        out \in {<<>>,
                 <<"\n">>,
                 <<" ", "\t", "\n">>,
                 hex(target_addr) \o <<"\n">>,
                 <<" ">> \o hex(target_addr) \o <<" ", "\n">>,
                 hex(target_addr) \o <<" ", "(", "i", "n", " ", "M", "a", "t", "r", "i", "x", "T", "e", "s", "t", "A", "p", "p", ")">> \o <<"\n">>,
                 hex(target_addr + 1) \o <<"\n">>,
                 <<"-", "[", "A", " ", "b", "]", " ", "(", "i", "n", " ", "M", "a", "t", "r", "i", "x", "T", "e", "s", "t", "A", "p", "p", ")", " ", "(", "A", ".", "m", ":", "4", ")">> \o <<"\n">>,
                 <<"-", "[", "A", " ", "b", "]", " ", "(", "i", "n", " ", "M", "a", "t", "r", "i", "x", "T", "e", "s", "t", "A", "p", "p", ")", " ", "(", "A", ".", "m", ":", "4", ")">>,
                 <<"f", " ", "(", "i", "n", " ", "M", "a", "t", "r", "i", "x", "T", "e", "s", "t", "A", "p", "p", ")">> \o <<"\n">>,
                 <<"-", "[", "A", " ", "t", "o", "0", "x", ":", "]", " ", "(", "i", "n", " ", "M", "a", "t", "r", "i", "x", "T", "e", "s", "t", "A", "p", "p", ")", " ", "(", "A", ".", "m", ":", "4", ")">> \o <<"\n">>,
                 <<"f", " ", "(", "i", "n", " ", "M", "a", "t", "r", "i", "x", "T", "e", "s", "t", "A", "p", "p", ")", " ", "+", " ", "1", "2">> \o <<"\n">>,
                 <<"f">> \o <<"\n">> \o <<"g">> \o <<"\n">>}}

\* The result of subprocess.run before the symbolizer was run.
NotRun == [raised |-> FALSE, returncode |-> 0, stdout |-> <<"<not run>">>]

\* The return value of symbolicate_address before it has returned.
NotReturned == <<"<not returned>">>

\* The file system: the image paths that exist on this machine, and what the
\* DerivedData glob patterns match.
CandidatePath(k) == <<"/", "d", "/", "c">> \o <<HexDigits[k + 1]>>

DwarfdumpRuns ==
    {[ok |-> FALSE, stdout |-> <<>>],
     [ok |-> TRUE, stdout |-> <<<<"U", "U", "I", "D", ":", " ", "A", "B", "C", "D", "-", "1", "2", " ", "(", "a", "r", "m", "6", "4", ")", " ", "c">>>>],
     [ok |-> TRUE, stdout |-> <<<<"U", "U", "I", "D", ":", " ", "a", "b", "c", "d", "-", "1", "2", " ", "(", "a", "r", "m", "6", "4", ")", " ", "c">>>>],
     [ok |-> TRUE, stdout |-> <<<<"U", "U", "I", "D", ":", " ", "F", "F", "F", "F", "-", "0", "0", " ", "(", "a", "r", "m", "6", "4", ")", " ", "c">>>>],
     [ok |-> TRUE, stdout |-> <<<<"U", "U", "I", "D", ":", " ", "F", "F", "F", "F", "-", "0", "0", " ", "(", "x", "8", "6", "_", "6", "4", ")", " ", "c">>,
                                <<"U", "U", "I", "D", ":", " ", "A", "B", "C", "D", "-", "1", "2", " ", "(", "a", "r", "m", "6", "4", ")", " ", "c">>>>]}

DerivedDataLists ==
    {[k \in 1..Len(f) |->
        [path |-> CandidatePath(k), mtime |-> f[k].mtime,
         dwarfdump |-> f[k].dwarfdump]] :
        f \in SeqsUpTo([mtime : {1, 2}, dwarfdump : DwarfdumpRuns], MaxCandidates)}

RunEnvironments ==
    {[disk |-> {AppImagePath}, derived_data |-> <<>>],
     [disk |-> {}, derived_data |-> <<>>],
     [disk |-> {},
      derived_data |-> <<[path |-> CandidatePath(1), mtime |-> 1,
                          dwarfdump |-> [ok |-> FALSE, stdout |-> <<>>]]>>]}

\* ----------------------------------------------------------------- state
VARIABLES
    pc,                 \* where symbolicate_report is
    output_file,        \* TRUE when an output file was given
    sys_stdout,         \* "original" or "file"
    output_handle,      \* "none", "open" or "closed"
    printed,            \* the diagnostics printed so far
    disk, derived_data, \* the file system
    data,               \* the parsed report
    binary_path, load_addr, arch,
    threads, main_thread, crashed_thread, app_code_threads, threads_to_show,
    thread_pos,         \* position in threads_to_show of the thread being walked
    frame_pos,          \* position in its backtrace of the frame being walked
    symbolicated_count, total_symbolicated,
    resolver_calls,     \* the symbolizer invocations made so far
    listing,            \* the per-thread frame listing printed so far
    app_code_locations,
    printed_locations,  \* the final list of application code locations
    address, lib_name,  \* an Image Map query and its answer
    target_addr,        \* the address of a call of symbolicate_address alone,
    result,             \* what subprocess.run gave in that call,
    returned_symbol     \* and what the call returned

vars ==
    <<pc, output_file, sys_stdout, output_handle, printed, disk, derived_data,
      data, binary_path, load_addr, arch, threads, main_thread, crashed_thread,
      app_code_threads, threads_to_show, thread_pos, frame_pos,
      symbolicated_count, total_symbolicated, resolver_calls, listing,
      app_code_locations, printed_locations, address, lib_name, target_addr,
      result, returned_symbol>>

walk_vars ==
    <<threads, main_thread, crashed_thread, app_code_threads, threads_to_show,
      thread_pos, frame_pos, symbolicated_count, total_symbolicated,
      resolver_calls, listing, app_code_locations, printed_locations>>

stream_vars == <<output_file, sys_stdout, output_handle>>
locate_vars == <<binary_path, load_addr, arch>>
env_vars == <<disk, derived_data>>
resolve_vars == <<target_addr, result, returned_symbol>>
query_vars == <<address, lib_name, resolve_vars>>

\* No call of symbolicate_address alone.
ResolverIdle ==
    /\ target_addr = 0
    /\ result = NotRun
    /\ returned_symbol = NotReturned

\* What symbolicate_report has not touched yet.
Fresh ==
    /\ sys_stdout = "original"
    /\ output_handle = "none"
    /\ printed = {}
    /\ binary_path = None
    /\ load_addr = NoLoadAddr
    /\ arch = None
    /\ threads = <<>>
    /\ main_thread = 0
    /\ crashed_thread = 0
    /\ app_code_threads = <<>>
    /\ threads_to_show = <<>>
    /\ thread_pos = 0
    /\ frame_pos = 0
    /\ symbolicated_count = 0
    /\ total_symbolicated = 0
    /\ resolver_calls = <<>>
    /\ listing = <<>>
    /\ app_code_locations = <<>>
    /\ printed_locations = <<>>

Init ==
    /\ pc = "start"
    /\ output_file \in BOOLEAN
    /\ \E env \in RunEnvironments :
          disk = env.disk /\ derived_data = env.derived_data
    /\ data = NoReport
    /\ address = 0
    /\ lib_name = None
    /\ Fresh
    /\ ResolverIdle

\* ---------------------------------------------------- symbolicate_report
\* Lines 256-258.
CheckReportPath ==
    /\ pc = "start"
    /\ \E exists \in BOOLEAN :
          IF exists
          THEN pc' = "redirect" /\ printed' = printed
          ELSE pc' = "returned" /\ printed' = printed \cup {"report_missing"}
    /\ UNCHANGED <<stream_vars, env_vars, data, locate_vars, walk_vars, query_vars>>

\* Lines 261-270.
RedirectOutput ==
    /\ pc = "redirect"
    /\ IF output_file
       THEN \E opened \in BOOLEAN :
               IF opened
               THEN /\ output_handle' = "open"
                    /\ sys_stdout' = "file"
                    /\ printed' = printed \cup {"saving_to_output_file"}
                    /\ pc' = "read_json"
               ELSE /\ printed' = printed \cup {"cannot_create_output_file"}
                    /\ pc' = "returned"
                    /\ UNCHANGED <<output_handle, sys_stdout>>
       ELSE pc' = "read_json" /\ UNCHANGED <<output_handle, sys_stdout, printed>>
    /\ UNCHANGED <<output_file, env_vars, data, locate_vars, walk_vars, query_vars>>

\* Lines 273-278, json.load succeeding.
ReadReport ==
    /\ pc = "read_json"
    /\ \E report \in ReportsOn(derived_data) : data' = report
    /\ pc' = "find_binary"
    /\ UNCHANGED <<stream_vars, printed, env_vars, locate_vars, walk_vars, query_vars>>

\* Lines 273-278, open or json.load raising.
ReadReportFails ==
    /\ pc = "read_json"
    /\ printed' = printed \cup {"read_failed"}
    /\ pc' = "returned"
    /\ UNCHANGED <<stream_vars, env_vars, data, locate_vars, walk_vars, query_vars>>

\* Lines 286-289 without the test of binary_path and load_addr.
LocateBinaryUnchecked ==
    /\ pc = "find_binary"
    /\ LET found == find_app_binary(data.binary_images, disk, derived_data)
       IN  /\ binary_path' = found.binary_path
           /\ load_addr' = found.load_addr
           /\ printed' = printed \cup found.printed
           /\ pc' = "check_binary"
    /\ UNCHANGED <<stream_vars, env_vars, data, arch, walk_vars, query_vars>>

\* Lines 286-289.
LocateBinary ==
    /\ pc = "find_binary"
    /\ LET found == find_app_binary(data.binary_images, disk, derived_data)
       IN  /\ binary_path' = found.binary_path
           /\ load_addr' = found.load_addr
           /\ IF found.binary_path = None \/ ~TruthyAddr(found.load_addr)
              THEN /\ printed' = printed \cup found.printed \cup {"cannot_find_binary"}
                   /\ pc' = "returned"
              ELSE /\ printed' = printed \cup found.printed
                   /\ pc' = "check_binary"
    /\ UNCHANGED <<stream_vars, env_vars, data, arch, walk_vars, query_vars>>

\* os.path.exists(binary_path) on the file system of this run.
OnDisk(path) ==
    path \in disk \cup {derived_data[k].path : k \in 1..Len(derived_data)}

\* Lines 306-315.
CheckBinary ==
    /\ pc = "check_binary"
    /\ IF OnDisk(binary_path)
       THEN /\ arch' = get_cpu_arch(data.cpu_arch)
            /\ printed' = printed
            /\ pc' = "get_threads"
       ELSE /\ printed' = printed \cup {"binary_missing"}
            /\ pc' = "returned"
            /\ arch' = arch
    /\ UNCHANGED <<stream_vars, env_vars, data, binary_path, load_addr,
                   walk_vars, query_vars>>


\* Lines 318-323 without the test for an empty thread list.
GetThreadsUnchecked ==
    /\ pc = "get_threads"
    /\ threads' = data.threads
    /\ printed' = printed
    /\ pc' = "select_threads"
    /\ UNCHANGED <<stream_vars, env_vars, data, locate_vars, main_thread,
                   crashed_thread, app_code_threads, threads_to_show, thread_pos,
                   frame_pos, symbolicated_count, total_symbolicated,
                   resolver_calls, listing, app_code_locations,
                   printed_locations, query_vars>>

\* Lines 318-323.
GetThreads ==
    /\ pc = "get_threads"
    /\ threads' = data.threads
    /\ IF data.threads = <<>>
       THEN printed' = printed \cup {"no_thread_info"} /\ pc' = "returned"
       ELSE printed' = printed /\ pc' = "select_threads"
    /\ UNCHANGED <<stream_vars, env_vars, data, locate_vars, main_thread,
                   crashed_thread, app_code_threads, threads_to_show, thread_pos,
                   frame_pos, symbolicated_count, total_symbolicated,
                   resolver_calls, listing, app_code_locations,
                   printed_locations, query_vars>>

\* Lines 326-394.
SelectThreads ==
    /\ pc = "select_threads"
    /\ main_thread' = MainThread(threads)
    /\ crashed_thread' = CrashedThread(threads)
    /\ app_code_threads' = AppCodeThreads(threads, 1)
    /\ threads_to_show' =
          ThreadsToShow(threads, main_thread', crashed_thread', app_code_threads')
    /\ IF threads_to_show' = <<>>
       THEN /\ printed' = printed \cup {"no_relevant_threads"}
            /\ pc' = "returned"
            /\ thread_pos' = thread_pos
       ELSE /\ printed' = printed
            /\ pc' = "threads"
            /\ thread_pos' = 1
    /\ UNCHANGED <<stream_vars, env_vars, data, locate_vars, threads, frame_pos,
                   symbolicated_count, total_symbolicated, resolver_calls,
                   listing, app_code_locations, printed_locations, query_vars>>

\* The thread being walked and its backtrace (lines 396-405).
target_thread == threads[threads_to_show[thread_pos].thread]
thread_label == threads_to_show[thread_pos].label
frames == target_thread.contents

\* Lines 407-410 with a return in the place of the continue.
SkipThreadStopsRun ==
    /\ pc = "threads"
    /\ thread_pos <= Len(threads_to_show)
    /\ frames = <<>>
    /\ listing' = Append(listing, [thread |-> thread_pos, frame |-> 0,
                                   shown |-> [how |-> "no_backtrace"]])
    /\ pc' = "returned"
    /\ UNCHANGED <<stream_vars, printed, env_vars, data, locate_vars,
                   threads, main_thread, crashed_thread, app_code_threads,
                   threads_to_show, thread_pos, frame_pos, symbolicated_count,
                   total_symbolicated, resolver_calls, app_code_locations,
                   printed_locations, query_vars>>

\* Lines 407-410: a selected thread without frames is skipped.
SkipThread ==
    /\ pc = "threads"
    /\ thread_pos <= Len(threads_to_show)
    /\ frames = <<>>
    /\ listing' = Append(listing, [thread |-> thread_pos, frame |-> 0,
                                   shown |-> [how |-> "no_backtrace"]])
    /\ thread_pos' = thread_pos + 1
    /\ UNCHANGED <<pc, stream_vars, printed, env_vars, data, locate_vars,
                   threads, main_thread, crashed_thread, app_code_threads,
                   threads_to_show, frame_pos, symbolicated_count,
                   total_symbolicated, resolver_calls, app_code_locations,
                   printed_locations, query_vars>>

\* Lines 412-429.
EnterThread ==
    /\ pc = "threads"
    /\ thread_pos <= Len(threads_to_show)
    /\ frames # <<>>
    /\ symbolicated_count' = 0
    /\ frame_pos' = 1
    /\ pc' = "frames"
    /\ UNCHANGED <<stream_vars, printed, env_vars, data, locate_vars, threads,
                   main_thread, crashed_thread, app_code_threads,
                   threads_to_show, thread_pos, total_symbolicated,
                   resolver_calls, listing, app_code_locations,
                   printed_locations, query_vars>>

\* Lines 431-528: a frame that is sent to the resolver.
ResolveFrame ==
    /\ pc = "frames"
    /\ frame_pos <= Len(frames)
    /\ should_symbolicate(frames[frame_pos], AppFrameCount(frames))
    /\ \E atos \in AtosRuns(frames[frame_pos].instruction_addr) :
          LET frame == frames[frame_pos]
              symbolicated == symbolicate_address(atos, frame.instruction_addr)
              shown == IF symbolicated # None
                       THEN ResolvedFrame(frame, symbolicated, data.binary_images)
                       ELSE FailedFrame(frame, data.binary_images)
          IN  /\ resolver_calls' =
                    Append(resolver_calls,
                           [thread |-> thread_pos, frame |-> frame_pos,
                            binary_path |-> binary_path, load_addr |-> load_addr,
                            target_addr |-> frame.instruction_addr, arch |-> arch,
                            symbolicated |-> symbolicated])
              /\ listing' = Append(listing, [thread |-> thread_pos,
                                             frame |-> frame_pos, shown |-> shown])
              /\ app_code_locations' =
                    IF symbolicated # None /\ shown.app_code
                    THEN Append(app_code_locations,
                                [thread |-> thread_label,
                                 file |-> shown.file_name,
                                 line |-> shown.line_num,
                                 symbol |-> symbolicated])
                    ELSE app_code_locations
              /\ symbolicated_count' =
                    IF symbolicated # None THEN symbolicated_count + 1
                    ELSE symbolicated_count
              /\ total_symbolicated' =
                    IF symbolicated # None THEN total_symbolicated + 1
                    ELSE total_symbolicated
    /\ frame_pos' = frame_pos + 1
    /\ UNCHANGED <<pc, stream_vars, printed, env_vars, data, locate_vars, threads,
                   main_thread, crashed_thread, app_code_threads,
                   threads_to_show, thread_pos, printed_locations, query_vars>>

\* Lines 431-452 and 529-543: a frame that is shown as the report has it.
ShowFrame ==
    /\ pc = "frames"
    /\ frame_pos <= Len(frames)
    /\ ~should_symbolicate(frames[frame_pos], AppFrameCount(frames))
    /\ listing' = Append(listing,
                         [thread |-> thread_pos, frame |-> frame_pos,
                          shown |-> PlainFrame(frames[frame_pos],
                                               data.binary_images)])
    /\ frame_pos' = frame_pos + 1
    /\ UNCHANGED <<pc, stream_vars, printed, env_vars, data, locate_vars, threads,
                   main_thread, crashed_thread, app_code_threads,
                   threads_to_show, thread_pos, symbolicated_count,
                   total_symbolicated, resolver_calls, app_code_locations,
                   printed_locations, query_vars>>

\* Lines 545-553: the end of a thread's backtrace.
LeaveThread ==
    /\ pc = "frames"
    /\ frame_pos > Len(frames)
    /\ thread_pos' = thread_pos + 1
    /\ pc' = "threads"
    /\ UNCHANGED <<stream_vars, printed, env_vars, data, locate_vars, threads,
                   main_thread, crashed_thread, app_code_threads,
                   threads_to_show, frame_pos, symbolicated_count,
                   total_symbolicated, resolver_calls, listing,
                   app_code_locations, printed_locations, query_vars>>

\* Lines 555-628 with the application code locations printed last to first.
SummariseNewestFirst ==
    /\ pc = "threads"
    /\ thread_pos > Len(threads_to_show)
    /\ printed_locations' =
          [k \in 1..Len(app_code_locations) |->
              app_code_locations[Len(app_code_locations) + 1 - k]]
    /\ printed' = printed \cup {"summary"}
                  \cup (IF total_symbolicated = 0 THEN {"nothing_symbolicated"}
                        ELSE {})
                  \cup (IF output_file THEN {"saved_to_output_file"} ELSE {})
    /\ IF output_file
       THEN sys_stdout' = "original" /\ output_handle' = "closed"
       ELSE UNCHANGED <<sys_stdout, output_handle>>
    /\ pc' = "returned"
    /\ UNCHANGED <<output_file, env_vars, data, locate_vars, threads, main_thread,
                   crashed_thread, app_code_threads, threads_to_show, thread_pos,
                   frame_pos, symbolicated_count, total_symbolicated,
                   resolver_calls, listing, app_code_locations, query_vars>>

\* Lines 555-628: the summary, the application code locations, and the
\* standard output put back.
Summarise ==
    /\ pc = "threads"
    /\ thread_pos > Len(threads_to_show)
    /\ printed_locations' = app_code_locations
    /\ printed' = printed \cup {"summary"}
                  \cup (IF total_symbolicated = 0 THEN {"nothing_symbolicated"}
                        ELSE {})
                  \cup (IF output_file THEN {"saved_to_output_file"} ELSE {})
    /\ IF output_file
       THEN sys_stdout' = "original" /\ output_handle' = "closed"
       ELSE UNCHANGED <<sys_stdout, output_handle>>
    /\ pc' = "returned"
    /\ UNCHANGED <<output_file, env_vars, data, locate_vars, threads, main_thread,
                   crashed_thread, app_code_threads, threads_to_show, thread_pos,
                   frame_pos, symbolicated_count, total_symbolicated,
                   resolver_calls, listing, app_code_locations, query_vars>>

Next ==
    \/ CheckReportPath
    \/ RedirectOutput
    \/ ReadReport
    \/ ReadReportFails
    \/ LocateBinary
    \/ CheckBinary
    \/ GetThreads
    \/ SelectThreads
    \/ SkipThread
    \/ EnterThread
    \/ ResolveFrame
    \/ ShowFrame
    \/ LeaveThread
    \/ Summarise

Spec == Init /\ [][Next]_vars

\* ------------------------------------------------- the Image Map alone
\* find_library_for_address applied to one address and one image list.
MappedImages ==
    SeqsUpTo([name : {AppImagePath, LibImagePath}, image_addr : {0, 16, 32},
              image_size : {0, 16, 32}, uuid : {<<>>}], MaxImages)

LabelledImages ==
    {<<[name |-> n, image_addr |-> 16, image_size |-> 16, uuid |-> <<>>]>> :
        n \in {<<"/", "u", "/", "l", "i", "b", "s", "y", "s", "t", "e", "m", "_", "k", "e", "r", "n", "e", "l", ".", "d", "y", "l", "i", "b">>, <<"/", "u", "/", "l", "i", "b", "o", "b", "j", "c", ".", "A", ".", "d", "y", "l", "i", "b">>,
               <<"/", "u", "/", "l", "i", "b", "d", "i", "s", "p", "a", "t", "c", "h", ".", "d", "y", "l", "i", "b">>, <<"/", "f", "/", "U", "I", "K", "i", "t", "C", "o", "r", "e">>, <<"/", "f", "/", "C", "o", "r", "e", "F", "o", "u", "n", "d", "a", "t", "i", "o", "n">>,
               <<"/", "f", "/", "F", "o", "u", "n", "d", "a", "t", "i", "o", "n">>, <<"/", "f", "/", "Q", "u", "a", "r", "t", "z", "C", "o", "r", "e">>, <<"/", "f", "/", "G", "r", "a", "p", "h", "i", "c", "s", "S", "e", "r", "v", "i", "c", "e", "s">>,
               <<"/", "u", "/", "D", "Y", "L", "D", "_", "s", "i", "m">>, <<"/", "s", "/", "M", "a", "t", "r", "i", "x", "T", "e", "s", "t", "A", "p", "p", ".", "a", "p", "p", "/", "M", "a", "t", "r", "i", "x", "T", "e", "s", "t", "A", "p", "p">>, <<"/", "s", "/">>, <<>>}}

QueryAddresses == {0, 15, 16, 31, 32, 47, 48, 64}

InitImage ==
    /\ pc = "image_query"
    /\ output_file = FALSE
    /\ disk = {}
    /\ derived_data = <<>>
    /\ \E images \in MappedImages \cup LabelledImages :
          data = [binary_images |-> images, cpu_arch |-> <<>>, threads |-> <<>>]
    /\ address \in QueryAddresses
    /\ lib_name = None
    /\ Fresh
    /\ ResolverIdle

FindLibrary ==
    /\ pc = "image_query"
    /\ lib_name' = find_library_for_address(address, data.binary_images)
    /\ pc' = "image_answered"
    /\ UNCHANGED <<stream_vars, printed, env_vars, data, locate_vars, walk_vars,
                   address, resolve_vars>>

NextImage == FindLibrary

SpecImage == InitImage /\ [][NextImage]_vars

\* ---------------------------------------------- the Binary Locator alone
\* symbolicate_report from the call of find_app_binary on, for reports that
\* vary the binary images and file systems that vary the candidates.
LocatedThreads ==
    <<[index |-> 0, name |-> Absent, crashed |-> FALSE,
       contents |-> <<RedactedAppFrame>>]>>

LocateImages ==
    SeqsUpTo([name : {AppImagePath, LibImagePath}, image_addr : {0, 16, 32},
              image_size : {16}, uuid : {<<>>, <<"A", "b", "c", "d", "-", "1", "2">>}], MaxImages)

FewImages ==
    {DefaultImages,
     <<[name |-> AppImagePath, image_addr |-> 16, image_size |-> 16,
        uuid |-> <<>>]>>,
     <<[name |-> LibImagePath, image_addr |-> 32, image_size |-> 16,
        uuid |-> <<"A", "B", "C", "D", "-", "1", "2">>]>>}

FewEnvironments ==
    {[disk |-> {}, derived_data |-> <<>>],
     [disk |-> {AppImagePath}, derived_data |-> <<>>],
     [disk |-> {LibImagePath}, derived_data |-> <<>>],
     [disk |-> {},
      derived_data |-> <<[path |-> CandidatePath(1), mtime |-> 1,
                          dwarfdump |-> [ok |-> FALSE, stdout |-> <<>>]]>>]}

InitLocate ==
    /\ pc = "find_binary"
    /\ output_file = FALSE
    /\ \/ /\ \E env \in FewEnvironments :
                disk = env.disk /\ derived_data = env.derived_data
          /\ \E images \in LocateImages :
                data = [binary_images |-> images, cpu_arch |-> <<"a", "r", "m", "6", "4">>,
                        threads |-> LocatedThreads]
       \/ /\ disk \in {{}, {AppImagePath}}
          /\ derived_data \in DerivedDataLists
          /\ \E images \in FewImages :
                data = [binary_images |-> images, cpu_arch |-> <<"a", "r", "m", "6", "4">>,
                        threads |-> LocatedThreads]
    /\ address = 0
    /\ lib_name = None
    /\ Fresh
    /\ ResolverIdle

NextLocate ==
    \/ LocateBinary
    \/ CheckBinary
    \/ GetThreads
    \/ SelectThreads
    \/ EnterThread
    \/ ResolveFrame
    \/ LeaveThread
    \/ Summarise

SpecLocate == InitLocate /\ [][NextLocate]_vars

\* ================================================================ claims
\* ---------------------------------------------- the Symbol Resolver alone
\* symbolicate_address applied to one address and one run of the symbolizer.
ResolveAddresses == {0, 9, 15, 16, 20, 255, 256, 4096}

InitResolve ==
    /\ pc = "resolve_called"
    /\ output_file = FALSE
    /\ disk = {AppImagePath}
    /\ derived_data = <<>>
    /\ data = NoReport
    /\ address = 0
    /\ lib_name = None
    /\ Fresh
    /\ target_addr \in ResolveAddresses
    /\ result = NotRun
    /\ returned_symbol = NotReturned

\* Lines 164-175: the symbolizer is run.
RunAtos ==
    /\ pc = "resolve_called"
    /\ result' \in ResolverRuns(target_addr)
    /\ pc' = "resolve_ran"
    /\ UNCHANGED <<stream_vars, printed, env_vars, data, locate_vars, walk_vars,
                   address, lib_name, target_addr, returned_symbol>>

\* Lines 183-193: the return value.
ReturnSymbol ==
    /\ pc = "resolve_ran"
    /\ returned_symbol' = symbolicate_address(result, target_addr)
    /\ pc' = "resolve_returned"
    /\ UNCHANGED <<stream_vars, printed, env_vars, data, locate_vars, walk_vars,
                   address, lib_name, target_addr, result>>

NextResolve == RunAtos \/ ReturnSymbol

SpecResolve == InitResolve /\ [][NextResolve]_vars

Min(S) == CHOOSE x \in S : \A y \in S : x <= y

\* ------------------------------------------------------------------- C1
\* The images of the query whose range [image_addr, image_addr + image_size)
\* holds the queried address.
ImagesHolding ==
    {k \in 1..Len(data.binary_images) :
        /\ data.binary_images[k].image_addr <= address
        /\ address < data.binary_images[k].image_addr
                       + data.binary_images[k].image_size}

\* C1: find_library_for_address(a, images) returns the label of the first
\* image in list order whose range holds a, also when ranges overlap, and
\* None when no image holds a; an image of size 0 never holds an address.
C1_FirstHoldingImageLabels ==
    pc = "image_answered" =>
        /\ ImagesHolding = {} => lib_name = None
        /\ ImagesHolding # {} =>
              lib_name = LibraryLabel(data.binary_images[Min(ImagesHolding)].name)
        /\ \A k \in ImagesHolding : data.binary_images[k].image_size # 0

\* Two overlapping images with different labels hold the address, and the
\* answer has been given.
C1_Witness ==
    /\ pc = "image_answered"
    /\ \E k, m \in ImagesHolding :
          /\ k < m
          /\ LibraryLabel(data.binary_images[k].name)
                # LibraryLabel(data.binary_images[m].name)
    /\ lib_name # None

\* ------------------------------------------------------------------- C2
\* The threads of the report that pass the main-thread test of line 353.
MainCandidates == {k \in 1..Len(threads) : IsMainThread(threads[k])}

\* The main thread of the report: of the threads that pass the main-thread
\* test, the one with the lowest index.
LowestIndexedMain ==
    CHOOSE k \in MainCandidates :
        \A m \in MainCandidates : threads[k].index <= threads[m].index

\* The threads of the report flagged crashed.
FlaggedCrashed == {k \in 1..Len(threads) : threads[k].crashed}

\* Selection has run.
SelectionDone ==
    \/ pc \in {"threads", "frames"}
    \/ "summary" \in printed
    \/ "no_relevant_threads" \in printed

\* C2: when exactly one thread is flagged crashed, it does not pass the
\* main-thread test and the report has a main thread, the selected list has
\* the main thread at its first position and the crashed thread after it.
C2_MainThenCrashed ==
    (/\ SelectionDone
     /\ MainCandidates # {}
     /\ Cardinality(FlaggedCrashed) = 1
     /\ FlaggedCrashed \cap MainCandidates = {})
    => /\ threads_to_show # <<>>
       /\ threads_to_show[1].thread = LowestIndexedMain
       /\ \E p \in 2..Len(threads_to_show) :
             threads_to_show[p].thread \in FlaggedCrashed

\* The same for the thread the code takes as the main thread: when it took
\* one and the thread it took as crashed is another, the selected list has
\* the first at position one and the second right after it.
TakenMainThenCrashed ==
    (/\ main_thread # 0
     /\ crashed_thread # 0
     /\ threads[crashed_thread] # threads[main_thread])
    => /\ Len(threads_to_show) >= 2
       /\ threads_to_show[1].thread = main_thread
       /\ threads_to_show[2].thread = crashed_thread
       /\ \A p \in 1..Len(threads_to_show) :
             threads_to_show[p].thread = main_thread => p = 1

\* With a single thread that passes the main-thread test, the statement of
\* C2 holds.
MainThenCrashedWithOneCandidate ==
    Cardinality(MainCandidates) = 1 => C2_MainThenCrashed

\* ------------------------------------------------------------------- C3
\* How often the thread at position k of the report is in the selected list.
TimesShown(k) ==
    Cardinality({p \in 1..Len(threads_to_show) : threads_to_show[p].thread = k})

\* The thread has a frame whose object_name contains the application's name.
HoldsAppFrame(thread) ==
    \E k \in 1..Len(thread.contents) :
        /\ thread.contents[k].object_name # Absent
        /\ contains(thread.contents[k].object_name, <<"M", "a", "t", "r", "i", "x", "T", "e", "s", "t", "A", "p", "p">>)

ShownFrames(p) == threads[threads_to_show[p].thread].contents

\* Frame i of selected thread p has been walked.
Walked(p, i) ==
    \/ p < thread_pos
    \/ p = thread_pos /\ pc = "frames" /\ i < frame_pos

\* Frame i of selected thread p was sent to the Symbol Resolver.
Sent(p, i) ==
    \E c \in 1..Len(resolver_calls) :
        resolver_calls[c].thread = p /\ resolver_calls[c].frame = i

OwnedByApp(frame) ==
    frame.object_name # Absent /\ contains(frame.object_name, <<"M", "a", "t", "r", "i", "x", "T", "e", "s", "t", "A", "p", "p">>)

\* The frame names no owner: object_name is "???" or missing.
OwnerUnknown(frame) == frame.object_name = Absent \/ frame.object_name = <<"?", "?", "?">>

\* symbol_name is absent (null, missing or empty) or the redacted sentinel.
SymbolUnusable(frame) ==
    frame.symbol_name \in {None, <<>>, <<"<", "r", "e", "d", "a", "c", "t", "e", "d", ">">>}

AppOwnedFrames(p) ==
    {i \in 1..Len(ShownFrames(p)) : OwnedByApp(ShownFrames(p)[i])}

\* C4: in a selected thread with at least one app-owned frame, a walked
\* frame was sent to the resolver exactly when it is app-owned and its symbol
\* is absent or redacted; no frame is sent before it is walked.
C4_AppThreadSendsAppFramesOnly ==
    \A p \in 1..Len(threads_to_show) :
        AppOwnedFrames(p) # {} =>
            \A i \in 1..Len(ShownFrames(p)) :
                /\ Walked(p, i) =>
                      (Sent(p, i) <=> /\ OwnedByApp(ShownFrames(p)[i])
                                      /\ SymbolUnusable(ShownFrames(p)[i]))
                /\ Sent(p, i) => Walked(p, i)

\* A thread has been walked in which an app-owned frame without a symbol was
\* sent and an unknown-owner frame without a symbol was not.
C4_Witness ==
    \E p \in 1..Len(threads_to_show) :
        /\ p < thread_pos
        /\ \E i, j \in 1..Len(ShownFrames(p)) :
              /\ OwnedByApp(ShownFrames(p)[i])
              /\ Sent(p, i)
              /\ ShownFrames(p)[j].object_name = <<"?", "?", "?">>
              /\ SymbolUnusable(ShownFrames(p)[j])
              /\ ~Sent(p, j)

\* C5: in a selected thread with no app-owned frame, a walked frame was sent
\* to the resolver exactly when its owner is unknown ("???") and its symbol
\* is absent or redacted; no frame is sent before it is walked.
C5_OtherThreadSendsUnknownFramesOnly ==
    \A p \in 1..Len(threads_to_show) :
        AppOwnedFrames(p) = {} =>
            \A i \in 1..Len(ShownFrames(p)) :
                /\ Walked(p, i) =>
                      (Sent(p, i) <=> /\ OwnerUnknown(ShownFrames(p)[i])
                                      /\ SymbolUnusable(ShownFrames(p)[i]))
                /\ Sent(p, i) => Walked(p, i)

\* A thread without app-owned frames has been walked in which a "???" frame
\* without a symbol was sent and a frame of a named library was not.
C5_Witness ==
    \E p \in 1..Len(threads_to_show) :
        /\ p < thread_pos
        /\ AppOwnedFrames(p) = {}
        /\ \E i, j \in 1..Len(ShownFrames(p)) :
              /\ ShownFrames(p)[i].object_name = <<"?", "?", "?">>
              /\ Sent(p, i)
              /\ ShownFrames(p)[j].object_name = <<"U", "I", "K", "i", "t", "C", "o", "r", "e">>
              /\ SymbolUnusable(ShownFrames(p)[j])
              /\ ~Sent(p, j)

\* ------------------------------------------------------- C6, C7 and C8
\* The Binary Locator has returned.
Located == pc # "find_binary" /\ data # NoReport

\* What the report declares (lines 61-82).
Declared == DeclaredIdentity(data.binary_images)

\* The search of lines 99-101 was reached: the report declares a usable
\* load address and its path is not on this machine.
SearchReached ==
    /\ Located
    /\ TruthyAddr(Declared.load_addr)
    /\ ~(TruthyStr(Declared.simulator_path) /\ Declared.simulator_path \in disk)

\* The candidates, most recently modified first.
Candidates == find_all_possible_binaries(derived_data)

\* The UUID the identity extractor printed for a candidate on its first
\* arm64 line: the text between "UUID: " and the next blank.  None when the
\* extractor failed or printed no such line.
PrintedUUID(dwarfdump) ==
    LET lines == {k \in 1..Len(dwarfdump.stdout) :
                    /\ contains(dwarfdump.stdout[k], <<"a", "r", "m", "6", "4">>)
                    /\ startswith(dwarfdump.stdout[k], <<"U", "U", "I", "D", ":", " ">>)}
    IN  IF ~dwarfdump.ok \/ lines = {} THEN None
        ELSE LET line == dwarfdump.stdout[Min(lines)]
                 blanks == {b \in 7..Len(line) : line[b] = " "}
             IN  SubSeq(line, 7, IF blanks = {} THEN Len(line) ELSE Min(blanks) - 1)

\* The candidates whose printed UUID is the declared one, letter case aside.
SameUUIDIgnoringCase ==
    {k \in 1..Len(Candidates) :
        /\ PrintedUUID(Candidates[k].dwarfdump) # None
        /\ lower(PrintedUUID(Candidates[k].dwarfdump)) = lower(Declared.report_uuid)}

\* C6: when the declared path is not on disk and the report declares a UUID,
\* the first candidate, most recently modified first, whose UUID as printed
\* by the identity extractor equals the declared UUID ignoring letter case is
\* the binary returned, as a match and not as the fallback.
C6_CaseInsensitiveUUIDMatch ==
    (/\ SearchReached
     /\ TruthyStr(Declared.report_uuid)
     /\ SameUUIDIgnoringCase # {})
    => /\ binary_path = Candidates[Min(SameUUIDIgnoringCase)].path
       /\ "uuid_unmatched_using_latest" \notin printed

\* The candidates whose UUID, as get_binary_uuid extracts it, is the
\* declared one.
ExtractedMatches ==
    {k \in 1..Len(Candidates) :
        /\ TruthyStr(Declared.report_uuid)
        /\ get_binary_uuid(Candidates[k].dwarfdump) # None
        /\ upper(get_binary_uuid(Candidates[k].dwarfdump))
              = upper(Declared.report_uuid)}

\* The paths of the candidates no other candidate is newer than.
NewestPaths ==
    {derived_data[k].path : k \in {x \in 1..Len(derived_data) :
        \A y \in 1..Len(derived_data) : derived_data[y].mtime <= derived_data[x].mtime}}

\* The run was stopped because no binary was located or the binary was gone.
AbortedForBinary ==
    "cannot_find_binary" \in printed \/ "binary_missing" \in printed

\* The report declares an identity whose path is not on this machine.
DeclaredPathMissing ==
    /\ Located
    /\ data.binary_images # <<>>
    /\ ~(TruthyStr(Declared.simulator_path) /\ Declared.simulator_path \in disk)

\* What the fallback gives: a most recently modified candidate with the
\* declared load address and the advisory, in a run that is not stopped,
\* sends its frames to the resolver with that candidate and ends with the
\* summary.
FellBackToNewest ==
    /\ binary_path \in NewestPaths
    /\ load_addr = Declared.load_addr
    /\ "uuid_unmatched_using_latest" \in printed
    /\ ~AbortedForBinary
    /\ \A c \in 1..Len(resolver_calls) :
          /\ resolver_calls[c].binary_path = binary_path
          /\ resolver_calls[c].load_addr = Declared.load_addr
    /\ pc = "returned" =>
          /\ threads_to_show # <<>>
          /\ resolver_calls # <<>>
          /\ "summary" \in printed

\* C7: when the declared path is not on disk, at least one candidate exists
\* and none of them has an extracted UUID equal to the declared one (or no
\* UUID is declared, or extraction failed for all), find_app_binary returns a
\* most recently modified candidate with the declared load address and
\* prints the advisory; the run is not stopped, goes on to thread selection
\* and sends its frames to the resolver with that candidate.
C7_FallsBackToNewestCandidate ==
    (/\ DeclaredPathMissing
     /\ derived_data # <<>>
     /\ ExtractedMatches = {})
    => FellBackToNewest

\* The same for the reports whose declared load address is not 0, for which
\* the search of lines 99-101 is reached.
FallsBackWhenSearchReached ==
    (/\ SearchReached
     /\ derived_data # <<>>
     /\ ExtractedMatches = {})
    => FellBackToNewest

\* C8: for a report with at least one binary image, also one whose
\* application image has image_addr 0, binary location fails and stops the
\* run only when the declared path is not on disk and the search finds no
\* candidate; otherwise a path and a load address are returned and the run
\* goes on.
C8_FailsOnlyWithoutCandidates ==
    (Located /\ data.binary_images # <<>>)
    => (("cannot_find_binary" \in printed)
        <=> /\ ~(TruthyStr(Declared.simulator_path)
                 /\ Declared.simulator_path \in disk)
            /\ derived_data = <<>>)

\* ------------------------------------------------------------------- C9
\* For a report without threads nothing is sent to the resolver and neither
\* a frame listing nor an application code location is produced.
NothingWalked ==
    /\ resolver_calls = <<>>
    /\ listing = <<>>
    /\ app_code_locations = <<>>
    /\ printed_locations = <<>>
    /\ "summary" \notin printed
    /\ "no_relevant_threads" \notin printed
    /\ pc \in {"find_binary", "check_binary", "get_threads", "returned"}

\* C9 as stated: every run on a report without threads ends with the "no
\* thread information" diagnostic, the resolver is never invoked and no
\* listing or application code location is produced.
C9_NoThreadsAlwaysDiagnosed ==
    (data # NoReport /\ data.threads = <<>>)
    => /\ NothingWalked
       /\ pc = "returned" => "no_thread_info" \in printed

\* C9 amended: for a report without threads the resolver is never invoked
\* and no listing or application code location is produced; the run ends
\* with the "no thread information" diagnostic when the binary was located,
\* and with the diagnostic of the binary location when it was not.
C9_NoThreadsStopsTheRun ==
    (data # NoReport /\ data.threads = <<>>)
    => /\ NothingWalked
       /\ (pc = "returned" /\ ~AbortedForBinary) => "no_thread_info" \in printed
       /\ (pc = "returned" /\ AbortedForBinary) => "no_thread_info" \notin printed

\* A run on a report without threads, whose binary was located, has ended.
C9_Witness ==
    /\ data # NoReport
    /\ data.threads = <<>>
    /\ binary_path # None
    /\ pc = "returned"
    /\ "no_thread_info" \in printed

\* ------------------------------------------------------------------ C10
\* C10: whenever symbolicate_report has returned after it opened the output
\* file, the output handle is closed and the standard output is the stream
\* it was before the call.
C10_OutputRestoredOnEveryExit ==
    (pc = "returned" /\ output_handle # "none")
    => output_handle = "closed" /\ sys_stdout = "original"

\* ------------------------------------------------------------------ C11
\* The listing entry is a resolved frame marked as application code.
IsAppCodeEntry(entry) == entry.shown.how = "resolved" /\ entry.shown.app_code

\* The listing entries marked as application code, in the order listed.
AppCodeEntries == SelectSeq(listing, IsAppCodeEntry)

\* What the claim asks a location to carry for a listing entry.
LocationOf(entry) ==
    [thread |-> threads_to_show[entry.thread].label,
     file |-> entry.shown.file_name,
     line |-> entry.shown.line_num,
     symbol |-> entry.shown.text]

\* The listing is in the order of the selected threads and, within a thread,
\* of the frames.
ListedInWalkOrder ==
    \A a, b \in 1..Len(listing) :
        a < b => \/ listing[a].thread < listing[b].thread
                 \/ /\ listing[a].thread = listing[b].thread
                    /\ listing[a].frame < listing[b].frame

\* C11: the application code locations are, in the order of the walk
\* (selected thread, then frame), one entry for each frame marked as
\* application code and nothing else, each with the label of its thread, the
\* parsed file, the parsed line and the resolved text; the final list printed
\* by the summary is that list.
C11_LocationsAreTheAppCodeFrames ==
    /\ ListedInWalkOrder
    /\ Len(app_code_locations) = Len(AppCodeEntries)
    /\ \A k \in 1..Len(AppCodeEntries) :
          app_code_locations[k] = LocationOf(AppCodeEntries[k])
    /\ printed_locations =
          IF "summary" \in printed THEN app_code_locations ELSE <<>>

\* The run has ended with two different locations, of two threads.
C11_Witness ==
    /\ pc = "returned"
    /\ Len(printed_locations) = 2
    /\ printed_locations[1].thread # printed_locations[2].thread
    /\ printed_locations[1].symbol # printed_locations[2].symbol

\* ------------------------------------------------------------------ C12
\* The listing entries for frame i of selected thread p (i is 0 for the
\* line printed for a thread without a backtrace).
EntriesFor(p, i) ==
    {k \in 1..Len(listing) : listing[k].thread = p /\ listing[k].frame = i}

\* The resolver did not resolve the frame of this invocation.
FailedCalls == {c \in 1..Len(resolver_calls) : resolver_calls[c].symbolicated = None}

\* The threads were selected, and the aggregation was reached.
Selected == threads_to_show # <<>>
Aggregated == "summary" \in printed

\* The walk so far: entries in walk order, no frame listed twice, a thread
\* without frames listed by one line and nothing else, a failed frame shown
\* as not resolved and as nothing else; and a run that has ended after the
\* selection has listed every frame of every selected thread once and has
\* reached the aggregation.
WalkIsComplete ==
    /\ ListedInWalkOrder
    /\ \A k \in 1..Len(listing) :
          /\ listing[k].thread \in 1..Len(threads_to_show)
          /\ listing[k].frame \in 0..Len(ShownFrames(listing[k].thread))
          /\ Cardinality(EntriesFor(listing[k].thread, listing[k].frame)) = 1
          /\ (listing[k].frame = 0) <=> (ShownFrames(listing[k].thread) = <<>>)
          /\ (listing[k].frame = 0) <=> (listing[k].shown.how = "no_backtrace")
    /\ \A c \in 1..Len(resolver_calls) :
          ShownFrames(resolver_calls[c].thread) # <<>>
    /\ \A c \in FailedCalls :
          \E k \in EntriesFor(resolver_calls[c].thread, resolver_calls[c].frame) :
              /\ listing[k].shown.how
                    \in {"unknown_library", "library", "symbolication_failed"}
              /\ ~listing[k].shown.app_code
              /\ listing[k].shown.text = None
    /\ Len(listing) >= Len(resolver_calls)
    /\ (Selected /\ pc = "returned") =>
          /\ Aggregated
          /\ \A q \in 1..Len(threads_to_show) :
                IF ShownFrames(q) = <<>>
                THEN Cardinality(EntriesFor(q, 0)) = 1
                ELSE \A i \in 1..Len(ShownFrames(q)) :
                        Cardinality(EntriesFor(q, i)) = 1

\* A step of the walk can be taken: one of the steps that do not call the
\* resolver is enabled, or the frame at hand is one that is sent to it.
WalkCanStep ==
    \/ ENABLED (SkipThread \/ EnterThread \/ ShowFrame \/ LeaveThread
                   \/ Summarise)
    \/ /\ pc = "frames"
       /\ frame_pos <= Len(frames)
       /\ should_symbolicate(frames[frame_pos], AppFrameCount(frames))

\* After the selection and before the aggregation the run is inside the
\* walk and can take a step.
WalkGoesOn ==
    (Selected /\ ~Aggregated) =>
        /\ pc \in {"threads", "frames"}
        /\ thread_pos \in 1..(Len(threads_to_show) + 1)
        /\ pc = "frames" => /\ thread_pos <= Len(threads_to_show)
                            /\ frame_pos \in 1..(Len(frames) + 1)
        /\ WalkCanStep

\* A step taken after the selection moves the walk on: to the next thread,
\* into the backtrace of the thread, to its next frame, or to the end of the
\* run through the aggregation.
WalkAdvances ==
    Selected =>
        \/ thread_pos' = thread_pos + 1 /\ pc' = "threads"
        \/ /\ thread_pos' = thread_pos
           /\ pc = "threads" /\ pc' = "frames" /\ frame_pos' = 1
        \/ /\ thread_pos' = thread_pos
           /\ pc = "frames" /\ pc' = "frames" /\ frame_pos' = frame_pos + 1
        \/ pc = "threads" /\ pc' = "returned" /\ "summary" \in printed'

\* C12: once threads have been selected the walk is complete in the sense
\* above at every step, whatever the symbolizer does and whichever threads
\* have no backtrace; until the aggregation a step can always be taken, and
\* every step moves the walk on, so that the run reaches the aggregation.
C12_WalkNeverStops ==
    /\ []WalkIsComplete
    /\ []WalkGoesOn
    /\ [][WalkAdvances]_vars

\* The run has ended after a thread without a backtrace was skipped and,
\* in a later thread, a frame the resolver failed on was followed by
\* another frame.
C12_Witness ==
    /\ pc = "returned"
    /\ Aggregated
    /\ \E k \in 1..Len(listing) : listing[k].shown.how = "no_backtrace"
    /\ \E c \in FailedCalls :
          \E k \in 1..Len(listing) :
              /\ listing[k].thread = resolver_calls[c].thread
              /\ listing[k].frame > resolver_calls[c].frame

\* ------------------------------------------------------------------ C13
\* The threads of the report with index 0.
IndexZero == {k \in 1..Len(threads) : threads[k].index = 0}

\* C13: when more than one thread passes the main-thread test, the thread
\* taken as the main thread and listed first is the lowest-indexed of them,
\* and a thread with index 0 is the one taken and listed first.
C13_LowestIndexedMainFirst ==
    (SelectionDone /\ Cardinality(MainCandidates) > 1)
    => /\ main_thread = LowestIndexedMain
       /\ threads_to_show # <<>>
       /\ threads_to_show[1].thread = LowestIndexedMain
       /\ IndexZero # {} => threads_to_show[1].thread \in IndexZero

\* What the scan of lines 349-354 gives: the thread taken as the main
\* thread is the last of the report, in the order of the report, that passes
\* the test, and it is listed first.
LastMainCandidateFirst ==
    (SelectionDone /\ MainCandidates # {})
    => /\ main_thread \in MainCandidates
       /\ \A k \in MainCandidates : k <= main_thread
       /\ threads_to_show # <<>>
       /\ threads_to_show[1].thread = main_thread

\* ------------------------------------------------------------------ C14
\* The file name starts with one of the monitoring-framework prefixes.
HasFrameworkPrefix(file_name) ==
    \E prefix \in framework_files :
        /\ Len(prefix) <= Len(file_name)
        /\ \A k \in 1..Len(prefix) : file_name[k] = prefix[k]

\* The listing entries of the frames that were sent to the resolver.
SentEntries ==
    {k \in 1..Len(listing) :
        \E c \in 1..Len(resolver_calls) :
            /\ resolver_calls[c].thread = listing[k].thread
            /\ resolver_calls[c].frame = listing[k].frame}

\* C14: a frame that was sent to the resolver and resolved is marked as
\* application code when no source file was extracted, and otherwise exactly
\* when the file name starts with none of the framework prefixes; a frame
\* that was not resolved is never marked as application code.
C14_ClassifiedByFilePrefix ==
    /\ \A c \in 1..Len(resolver_calls) :
          \E k \in EntriesFor(resolver_calls[c].thread, resolver_calls[c].frame) :
              /\ (listing[k].shown.how = "resolved")
                    <=> (resolver_calls[c].symbolicated # None)
              /\ listing[k].shown.how = "resolved" =>
                    /\ listing[k].shown.text = resolver_calls[c].symbolicated
                    /\ listing[k].shown.file_name
                          = parse_symbol_output(resolver_calls[c].symbolicated).file_name
    /\ \A k \in 1..Len(listing) :
          IF listing[k].shown.how = "resolved"
          THEN /\ k \in SentEntries
               /\ listing[k].shown.app_code
                     <=> \/ listing[k].shown.file_name = None
                         \/ ~HasFrameworkPrefix(listing[k].shown.file_name)
          ELSE listing[k].frame # 0 => ~listing[k].shown.app_code

\* The run has ended with a resolved frame of a source file that is not
\* marked as application code and a resolved frame of a source file that is.
C14_Witness ==
    /\ pc = "returned"
    /\ \E a, b \in 1..Len(listing) :
          /\ listing[a].shown.how = "resolved"
          /\ listing[a].shown.file_name # None
          /\ ~listing[a].shown.app_code
          /\ listing[b].shown.how = "resolved"
          /\ listing[b].shown.file_name # None
          /\ listing[b].shown.app_code

\* ------------------------------------------------------------------ C15
\* The symbolizer timed out or raised, exited non-zero, printed nothing, or
\* printed the raw hex form of the target address.
StatedFailure ==
    \/ result.raised
    \/ result.returncode # 0
    \/ strip(result.stdout) = <<>>
    \/ strip(result.stdout) = hex(target_addr)

\* C15: symbolicate_address returns None exactly when the symbolizer timed
\* out or raised, exited non-zero, printed empty output or printed the raw
\* hex form of the target address; for every other result it returns the
\* output line.
C15_UnresolvedExactlyOnFailureOrEcho ==
    pc = "resolve_returned" =>
        IF StatedFailure THEN returned_symbol = None
        ELSE returned_symbol = strip(result.stdout)

\* What line 187 gives: None also for every output that holds "0x" anywhere.
UnresolvedAlsoOnHexMarker ==
    pc = "resolve_returned" =>
        IF StatedFailure \/ contains(strip(result.stdout), <<"0", "x">>)
        THEN returned_symbol = None
        ELSE returned_symbol = strip(result.stdout)

\* ------------------------------------------------------------------ C16
\* The phase of the run: 0 before the binary is located, 1 from there to
\* the selection of the threads, 2 in the scan of the selected threads, 3
\* after the aggregation, and 4 after a run that was stopped before it.
Phase(at, out) ==
    IF at \in {"start", "redirect", "read_json", "find_binary"} THEN 0
    ELSE IF at \in {"check_binary", "get_threads", "select_threads"} THEN 1
    ELSE IF at \in {"threads", "frames"} THEN 2
    ELSE IF "summary" \in out THEN 3 ELSE 4

\* The diagnostics of the failures that end the run.
FatalDiagnostics ==
    {"report_missing", "cannot_create_output_file", "read_failed",
     "cannot_find_binary", "binary_missing", "no_thread_info",
     "no_relevant_threads"}

FatalFailure == printed \cap FatalDiagnostics # {}

\* The resolver was invoked only for a located binary that is on disk, with
\* a load address that is not 0, and for a selected thread; every invocation
\* was made with the located path, load address and architecture; the
\* aggregation came after the selection; a fatal failure ended the run with
\* no invocation and no aggregation.
PhasesKept ==
    /\ resolver_calls # <<>> =>
          /\ binary_path # None
          /\ OnDisk(binary_path)
          /\ load_addr # NoLoadAddr
          /\ load_addr # 0
          /\ threads_to_show # <<>>
          /\ Phase(pc, printed) \in {2, 3}
    /\ \A c \in 1..Len(resolver_calls) :
          /\ resolver_calls[c].binary_path = binary_path
          /\ resolver_calls[c].load_addr = load_addr
          /\ resolver_calls[c].arch = arch
          /\ resolver_calls[c].thread \in 1..Len(threads_to_show)
    /\ Phase(pc, printed) \in {1, 2, 3} =>
          binary_path # None /\ load_addr # NoLoadAddr /\ load_addr # 0
    /\ Phase(pc, printed) \in {2, 3} => threads_to_show # <<>> /\ OnDisk(binary_path)
    /\ "summary" \in printed => pc = "returned"
    /\ FatalFailure =>
          /\ pc = "returned"
          /\ resolver_calls = <<>>
          /\ listing = <<>>
          /\ "summary" \notin printed
    /\ pc = "returned" => (FatalFailure <=> "summary" \notin printed)

\* A step goes to the same or to a later phase and never leaves the end of
\* the run; the resolver is invoked in the scan only, the aggregation
\* follows the scan of the last selected thread, and nothing that was
\* located or selected changes afterwards.
PhasesInOrder ==
    /\ Phase(pc', printed') >= Phase(pc, printed)
    /\ Phase(pc, printed) >= 3 => UNCHANGED vars
    /\ resolver_calls' # resolver_calls =>
          /\ pc = "frames" /\ pc' = "frames"
          /\ Len(resolver_calls') = Len(resolver_calls) + 1
    /\ ("summary" \in printed' /\ "summary" \notin printed) =>
          pc = "threads" /\ thread_pos > Len(threads_to_show)
    /\ Phase(pc, printed) = 2 => UNCHANGED <<locate_vars, threads_to_show>>
    /\ Phase(pc, printed) = 1 => UNCHANGED <<binary_path, load_addr>>

\* C16: the phases of a run come in the order binary located, threads
\* selected, scan of the selected threads, aggregation; the resolver is
\* invoked only after a binary on disk with a load address other than 0 was
\* located and threads were selected, always with the same binary path, load
\* address and architecture; after a fatal failure there is no invocation
\* and no aggregation.
C16_PhasesInOrder == []PhasesKept /\ [][PhasesInOrder]_vars

\* The run has ended with the aggregation after two resolver invocations.
C16_Witness ==
    /\ pc = "returned"
    /\ "summary" \in printed
    /\ Len(resolver_calls) >= 2

====
